---- MODULE Spec2Model ----
(***************************************************************************)
(* A model of the TaxJar command-line client: the config store             *)
(* (src/src/config.js), the API client (src/src/api.js) and the command    *)
(* dispatcher (src/src/index.js).                                          *)
(*                                                                         *)
(* One process invocation is: commander parses argv, the command's action  *)
(* handler runs up to its await (spinner, params, client, request), the    *)
(* promise settles and the rest of the handler (render or catch) runs.     *)
(* The persisted configuration record survives from one invocation to the  *)
(* next; everything else is per process.                                   *)
(*                                                                         *)
(* Every JavaScript string is a sequence of one-character strings (or of   *)
(* opaque tokens where the characters do not matter), so that slice,       *)
(* parseFloat and truthiness are computed as the code computes them.       *)
(***************************************************************************)
EXTENDS Integers, Sequences, FiniteSets, TLC

VARIABLES
    store,      \* the persisted configuration record {apiKey, baseUrl}
    env,        \* process.env of the running invocation
    pc,         \* where the invocation is: idle, parsing, running, awaiting, exited
    cmd,        \* the subcommand invoked
    argv,       \* the flags and arguments given: name -> text
    requests,   \* the HTTP requests sent by this invocation, in order
    spinner,    \* the ora spinner: none, spinning, succeeded, failed
    out,        \* what the invocation wrote, in order
    exitCode,   \* the process exit status, -1 while it runs
    shown,      \* what showConfig() returned to config show
    response,   \* how the awaited request settled, if it did
    table,      \* the columns and rows printTable is applied to
    printed,    \* the lines printTable wrote for them
    lastSet     \* history: the latest setApiKey call, if any: its key, the stored
                \* base URL before it, and whether it replaced another stored key

vars == <<store, env, pc, cmd, argv, requests, response, spinner, out, exitCode, shown,
          lastSet, table, printed>>

----------------------------------------------------------------------------
(* Bounds of the model.                                                    *)

\* Longest API key of the config-store specification.
MaxKeyLen == 9

\* How many flags of one invocation may differ from the plain invocation
\* (every required flag given a well-formed value, no optional flag given).
MaxVaried == 2

----------------------------------------------------------------------------
(* JavaScript strings.                                                     *)

Empty == <<>>

\* A string is truthy when it is not empty; undefined and "" are both falsy,
\* and an unset environment variable or option that is only ever tested for
\* truthiness is modelled as the empty string.
Truthy(t) == Len(t) > 0

\* a || b on strings.
OrElse(a, b) == IF Truthy(a) THEN a ELSE b

Min(a, b) == IF a < b THEN a ELSE b
Max(a, b) == IF a > b THEN a ELSE b

\* String.prototype.slice(start, end): negative indices count from the end,
\* both are clamped to the string.
JsIndex(n, i) == IF i < 0 THEN Max(n + i, 0) ELSE Min(i, n)
JsSlice(s, start, end) == SubSeq(s, JsIndex(Len(s), start) + 1, JsIndex(Len(s), end))
JsSliceFrom(s, start) == JsSlice(s, start, Len(s))

----------------------------------------------------------------------------
(* The config store, src/src/config.js.                                    *)

\* The schema default of baseUrl.
DefaultBaseUrl == <<"https://api.taxjar.com/v2">>

\* config.path: the displayed location of the record.
ConfigPath == <<"taxjar-cli/config.json">>

\* The mask and the placeholder of showConfig.
KeyMask == <<"*", "*", "*", "*">>
NotSet == <<"(not set)">>

\* getApiKey(): the key, or exit = TRUE when it prints the instructions and
\* calls process.exit(1).
getApiKey_StoredFirst(e, s) ==
    LET apiKey == OrElse(s.apiKey, e.TAXJAR_API_KEY)
    IN  [exit |-> ~Truthy(apiKey), apiKey |-> apiKey]

getApiKey_NoExit(e, s) ==
    LET apiKey == OrElse(e.TAXJAR_API_KEY, s.apiKey)
    IN  [exit |-> FALSE, apiKey |-> apiKey]

getApiKey(e, s) ==
    LET apiKey == OrElse(e.TAXJAR_API_KEY, s.apiKey)
    IN  [exit |-> ~Truthy(apiKey), apiKey |-> apiKey]

\* setApiKey(key): config.set('apiKey', key).
setApiKey_Append(s, key) == [s EXCEPT !.apiKey = s.apiKey \o key]

setApiKey(s, key) == [s EXCEPT !.apiKey = key]

\* getBaseUrl().
getBaseUrl(e, s) == OrElse(e.TAXJAR_BASE_URL, s.baseUrl)

\* apiKey.slice(0, 4) + '****' + apiKey.slice(-4), or '(not set)'.
maskKey_GrowingMask(apiKey) ==
    IF Truthy(apiKey)
    THEN JsSlice(apiKey, 0, 4) \o [i \in 1..Max(Len(apiKey) - 4, 4) |-> "*"]
            \o JsSliceFrom(apiKey, -4)
    ELSE NotSet

maskKey(apiKey) ==
    IF Truthy(apiKey)
    THEN JsSlice(apiKey, 0, 4) \o KeyMask \o JsSliceFrom(apiKey, -4)
    ELSE NotSet

\* showConfig(): the stored key is looked up before the environment.
showConfig(e, s) ==
    LET apiKey == OrElse(OrElse(s.apiKey, e.TAXJAR_API_KEY), Empty)
    IN  [apiKey |-> maskKey(apiKey), baseUrl |-> getBaseUrl(e, s), configPath |-> ConfigPath]

----------------------------------------------------------------------------
(* parseFloat, as the handlers of src/src/index.js apply it to flag texts. *)

Digits == {"0", "1", "2", "3", "4", "5", "6", "7", "8", "9"}

DigitValue(c) ==
    CASE c = "0" -> 0 [] c = "1" -> 1 [] c = "2" -> 2 [] c = "3" -> 3 [] c = "4" -> 4
      [] c = "5" -> 5 [] c = "6" -> 6 [] c = "7" -> 7 [] c = "8" -> 8 [] c = "9" -> 9

\* How many digits stand in s from position i on.
RECURSIVE DigitRun(_, _)
DigitRun(s, i) == IF i <= Len(s) /\ s[i] \in Digits THEN 1 + DigitRun(s, i + 1) ELSE 0

\* The value of the digits s[i .. i + n - 1], after the digits already read.
RECURSIVE DigitsValue(_, _, _, _)
DigitsValue(s, i, n, acc) ==
    IF n = 0 THEN acc ELSE DigitsValue(s, i + 1, n - 1, 10 * acc + DigitValue(s[i]))

RECURSIVE Pow10(_)
Pow10(n) == IF n = 0 THEN 1 ELSE 10 * Pow10(n - 1)

\* The values a request parameter takes: a string, a number num/den, or NaN.
Str(t) == [t |-> "string", s |-> t, num |-> 0, den |-> 1]
Num(n, d) == [t |-> "number", s |-> Empty, num |-> n, den |-> d]
NaN == [t |-> "NaN", s |-> Empty, num |-> 0, den |-> 1]

\* parseFloat(text): the longest prefix that reads as a decimal literal
\* (sign, digits, a point, digits); NaN when no digit is read. The rest of the
\* text is ignored. Exponents, Infinity and leading blanks do not occur in the
\* texts of the model.
parseFloat(text) ==
    LET sign == IF Len(text) > 0 /\ text[1] \in {"+", "-"} THEN 1 ELSE 0
        ints == DigitRun(text, sign + 1)
        dot == sign + ints + 1
        fracs == IF dot <= Len(text) /\ text[dot] = "." THEN DigitRun(text, dot + 1) ELSE 0
        mag == DigitsValue(text, dot + 1, fracs, DigitsValue(text, sign + 1, ints, 0))
    IN  IF ints + fracs = 0 THEN NaN
        ELSE Num(IF sign = 1 /\ text[1] = "-" THEN -mag ELSE mag, Pow10(fracs))

----------------------------------------------------------------------------
(* The command tree of src/src/index.js: each subcommand's declared shape. *)

ConfigCommands == {"config set", "config show"}

ApiCommands ==
    {"tax calculate", "rates get", "rates summary", "nexus list", "categories list",
     "orders list", "orders get", "orders create", "orders update", "orders delete",
     "refunds list", "refunds get", "refunds create", "validate address", "validate vat"}

Commands == ConfigCommands \cup ApiCommands

\* The requiredOption flags and the <positional> arguments: commander rejects
\* the command line when one is missing, before the action handler runs.
Required(c) ==
    CASE c = "config set" -> {"apiKey"}
      [] c = "tax calculate" ->
            {"fromCountry", "fromZip", "fromState", "toCountry", "toZip", "toState", "amount"}
      [] c = "rates get" -> {"zip"}
      [] c \in {"orders get", "orders update", "orders delete", "refunds get"} ->
            {"transactionId"}
      [] c = "orders create" ->
            {"transactionId", "transactionDate", "toCountry", "toZip", "toState",
             "amount", "shipping", "salesTax"}
      [] c = "refunds create" ->
            {"transactionId", "transactionDate", "transactionReferenceId", "toCountry",
             "toZip", "toState", "amount", "shipping", "salesTax"}
      [] c = "validate address" -> {"country"}
      [] c = "validate vat" -> {"vatNumber"}
      [] OTHER -> {}

\* The .option flags that take a value.
Optional(c) ==
    CASE c = "tax calculate" -> {"shipping", "fromCity", "fromStreet", "toCity", "toStreet"}
      [] c = "rates get" -> {"country", "city", "street", "state"}
      [] c = "orders list" -> {"fromDate", "toDate", "status"}
      [] c = "orders create" -> {"fromCountry", "fromZip", "fromState", "toCity", "fromCity"}
      [] c = "orders update" -> {"amount", "shipping", "salesTax", "transactionDate"}
      [] c = "refunds list" -> {"fromDate", "toDate"}
      [] c = "validate address" -> {"state", "zip", "city", "street"}
      [] OTHER -> {}

\* The flags whose text the handler passes to parseFloat.
Numeric(c) ==
    CASE c = "tax calculate" -> {"amount", "shipping"}
      [] c \in {"orders create", "orders update", "refunds create"} ->
            {"amount", "shipping", "salesTax"}
      [] OTHER -> {}

\* The defaults declared with .option(flags, description, default).
Defaults(c) ==
    CASE c = "tax calculate" -> [shipping |-> <<"0">>]
      [] c = "rates get" -> [country |-> <<"U", "S">>]
      [] OTHER -> <<>>

\* The boolean --json flag of every data-producing subcommand.
JsonFlag(c) == IF c \in ApiCommands THEN {"json"} ELSE {}

Flags(c) == Required(c) \cup Optional(c) \cup JsonFlag(c)

\* commander's options object: what was given, over the declared defaults.
Options(c, given) == given @@ Defaults(c)

\* options.name where the handler only tests or copies it: undefined is falsy.
Opt(o, f) == IF f \in DOMAIN o THEN o[f] ELSE Empty

\* The flags commander finds missing.
MissingRequired(c, given) == Required(c) \ DOMAIN given

----------------------------------------------------------------------------
(* The request parameters each handler of src/src/index.js assembles.      *)

\* if (options.flag) params.field = options.flag
CopyIfTruthy_Always(p, o, flag, field) == p @@ (field :> Str(Opt(o, flag)))

CopyIfTruthy_IfGiven(p, o, flag, field) ==
    IF flag \in DOMAIN o THEN p @@ (field :> Str(o[flag])) ELSE p

CopyIfTruthy(p, o, flag, field) ==
    IF Truthy(Opt(o, flag)) THEN p @@ (field :> Str(o[flag])) ELSE p

\* if (options.flag) params.field = parseFloat(options.flag)
ParseIfTruthy(p, o, flag, field) ==
    IF Truthy(Opt(o, flag)) THEN p @@ (field :> parseFloat(o[flag])) ELSE p

NoParams == [f \in {} |-> NaN]

TaxCalculateParams(o) ==
    CopyIfTruthy(CopyIfTruthy(CopyIfTruthy(CopyIfTruthy(
        [from_country |-> Str(o.fromCountry),
         from_zip |-> Str(o.fromZip),
         from_state |-> Str(o.fromState),
         to_country |-> Str(o.toCountry),
         to_zip |-> Str(o.toZip),
         to_state |-> Str(o.toState),
         amount |-> parseFloat(o.amount),
         shipping |-> parseFloat(o.shipping)],
        o, "fromCity", "from_city"), o, "fromStreet", "from_street"),
        o, "toCity", "to_city"), o, "toStreet", "to_street")

RatesGetParams(o) ==
    CopyIfTruthy(CopyIfTruthy(CopyIfTruthy(
        [country |-> Str(o.country)],
        o, "city", "city"), o, "street", "street"), o, "state", "state")

OrdersListParams(o) ==
    CopyIfTruthy(CopyIfTruthy(CopyIfTruthy(
        NoParams,
        o, "fromDate", "from_transaction_date"), o, "toDate", "to_transaction_date"),
        o, "status", "status")

OrdersCreateParams(o) ==
    CopyIfTruthy(CopyIfTruthy(CopyIfTruthy(CopyIfTruthy(CopyIfTruthy(
        [transaction_id |-> Str(o.transactionId),
         transaction_date |-> Str(o.transactionDate),
         to_country |-> Str(o.toCountry),
         to_zip |-> Str(o.toZip),
         to_state |-> Str(o.toState),
         amount |-> parseFloat(o.amount),
         shipping |-> parseFloat(o.shipping),
         sales_tax |-> parseFloat(o.salesTax)],
        o, "fromCountry", "from_country"), o, "fromZip", "from_zip"),
        o, "fromState", "from_state"), o, "toCity", "to_city"), o, "fromCity", "from_city")

OrdersUpdateParams(o) ==
    CopyIfTruthy(ParseIfTruthy(ParseIfTruthy(ParseIfTruthy(
        [transaction_id |-> Str(o.transactionId)],
        o, "amount", "amount"), o, "shipping", "shipping"), o, "salesTax", "sales_tax"),
        o, "transactionDate", "transaction_date")

RefundsListParams(o) ==
    CopyIfTruthy(CopyIfTruthy(
        NoParams,
        o, "fromDate", "from_transaction_date"), o, "toDate", "to_transaction_date")

RefundsCreateParams(o) ==
    [transaction_id |-> Str(o.transactionId),
     transaction_date |-> Str(o.transactionDate),
     transaction_reference_id |-> Str(o.transactionReferenceId),
     to_country |-> Str(o.toCountry),
     to_zip |-> Str(o.toZip),
     to_state |-> Str(o.toState),
     amount |-> parseFloat(o.amount),
     shipping |-> parseFloat(o.shipping),
     sales_tax |-> parseFloat(o.salesTax)]

ValidateAddressParams(o) ==
    CopyIfTruthy(CopyIfTruthy(CopyIfTruthy(CopyIfTruthy(
        [country |-> Str(o.country)],
        o, "state", "state"), o, "zip", "zip"), o, "city", "city"), o, "street", "street")

----------------------------------------------------------------------------
(* The API client, src/src/api.js.                                         *)

\* The fixed request timeout of the axios client, in milliseconds.
TimeoutMs == 30000

\* encodeURIComponent: the reserved characters are percent-encoded, every
\* other character of the model's texts stands for itself.
EncodeChar(c) ==
    CASE c = "/" -> <<"%", "2", "F">>
      [] c = "?" -> <<"%", "3", "F">>
      [] c = "#" -> <<"%", "2", "3">>
      [] c = "&" -> <<"%", "2", "6">>
      [] c = " " -> <<"%", "2", "0">>
      [] OTHER -> <<c>>

RECURSIVE encodeURIComponent(_)
encodeURIComponent(t) ==
    IF t = Empty THEN Empty ELSE EncodeChar(Head(t)) \o encodeURIComponent(Tail(t))

\* createClient(): the key is resolved first; without one getApiKey ends the
\* process and no client is built.
createClient(e, s) ==
    LET k == getApiKey(e, s)
    IN  [exit |-> k.exit,
         baseURL |-> getBaseUrl(e, s),
         Authorization |-> <<"Bearer ">> \o k.apiKey,
         contentType |-> "application/json",
         timeout |-> TimeoutMs]

\* One call of the client per exported function: method, path, the encoded
\* path argument, where the parameters travel, and the envelope field that is
\* unwrapped from a 2xx response.
Call(method, path, id, via, params, field) ==
    [method |-> method, path |-> path, id |-> id, via |-> via, params |-> params,
     field |-> field]

calculateTax(params) == Call("POST", "/taxes", Empty, "body", params, "tax")
getRates(zip, params) ==
    Call("GET", "/rates/", encodeURIComponent(zip), "query", params, "rate")
getNexusRegions == Call("GET", "/nexus/regions", Empty, "none", NoParams, "regions")
getCategories == Call("GET", "/categories", Empty, "none", NoParams, "categories")
listOrders(params) == Call("GET", "/transactions/orders", Empty, "query", params, "orders")
getOrder(id) ==
    Call("GET", "/transactions/orders/", encodeURIComponent(id), "none", NoParams, "order")
createOrder(params) == Call("POST", "/transactions/orders", Empty, "body", params, "order")
updateOrder(id, params) ==
    Call("PUT", "/transactions/orders/", encodeURIComponent(id), "body", params, "order")
deleteOrder(id) ==
    Call("DELETE", "/transactions/orders/", encodeURIComponent(id), "none", NoParams, "order")
listRefunds(params) ==
    Call("GET", "/transactions/refunds", Empty, "query", params, "refunds")
getRefund(id) ==
    Call("GET", "/transactions/refunds/", encodeURIComponent(id), "none", NoParams, "refund")
createRefund(params) ==
    Call("POST", "/transactions/refunds", Empty, "body", params, "refund")
validateAddress(params) ==
    Call("POST", "/addresses/validate", Empty, "body", params, "addresses")
validateVat(vat) ==
    Call("GET", "/validation", Empty, "query", [vat |-> Str(vat)], "validation")
getSummaryRates == Call("GET", "/summary_rates", Empty, "none", NoParams, "summary_rates")

\* The client call each handler awaits, from its options.
ApiCall(c, o) ==
    CASE c = "tax calculate" -> calculateTax(TaxCalculateParams(o))
      [] c = "rates get" -> getRates(o.zip, RatesGetParams(o))
      [] c = "rates summary" -> getSummaryRates
      [] c = "nexus list" -> getNexusRegions
      [] c = "categories list" -> getCategories
      [] c = "orders list" -> listOrders(OrdersListParams(o))
      [] c = "orders get" -> getOrder(o.transactionId)
      [] c = "orders create" -> createOrder(OrdersCreateParams(o))
      [] c = "orders update" -> updateOrder(o.transactionId, OrdersUpdateParams(o))
      [] c = "orders delete" -> deleteOrder(o.transactionId)
      [] c = "refunds list" -> listRefunds(RefundsListParams(o))
      [] c = "refunds get" -> getRefund(o.transactionId)
      [] c = "refunds create" -> createRefund(RefundsCreateParams(o))
      [] c = "validate address" -> validateAddress(ValidateAddressParams(o))
      [] c = "validate vat" -> validateVat(o.vatNumber)

----------------------------------------------------------------------------
(* What the remote service answers, and how api.js turns it into a result. *)

\* Most entries of a list result.
MaxItems == 2

\* The subcommands whose result is a list.
ListCommands ==
    {"rates summary", "nexus list", "categories list", "orders list", "refunds list",
     "validate address"}

\* The entries a list result is made of, and the list results.
Entries == {"e1", "e2"}
Lists == UNION {[1..n -> Entries] : n \in 0..MaxItems}

\* A field of an error body: absent, or present with a text.
NoField == [present |-> FALSE, text |-> Empty]
Field(t) == [present |-> TRUE, text |-> t]

\* The bodies of a non-2xx response: detail and error each absent, empty or
\* a message.
Bodies ==
    [detail : {NoField, Field(Empty), Field(<<"d">>)},
     error : {NoField, Field(Empty), Field(<<"e">>)}]
NoBody == [detail |-> NoField, error |-> NoField]

\* A response: a 2xx whose envelope holds the unwrapped field (defined) or
\* lacks it, the field being the list of items or the one entity in items; a
\* 2xx whose body is the JSON null; a non-2xx status with its body; no
\* response at all; or a request that could not be sent.
Response(kind, status, defined, items, body) ==
    [kind |-> kind, status |-> status, defined |-> defined, items |-> items, body |-> body]

NotSettled == Response("none", 0, FALSE, <<>>, NoBody)

Responses(c) ==
    {Response("2xx", 200, TRUE, l, NoBody) : l \in (IF c \in ListCommands THEN Lists ELSE {<<"e1">>})}
    \cup {Response("2xx", 200, FALSE, <<>>, NoBody)}
    \cup {Response("null body", 200, FALSE, <<>>, NoBody)}
    \cup {Response("status", st, FALSE, <<>>, b) : st \in {404, 500}, b \in Bodies}
    \cup {Response("no response", 0, FALSE, <<>>, NoBody),
          Response("not sent", 0, FALSE, <<>>, NoBody)}

\* What is written: a spinner change, a stdout line or a stderr line, with
\* the text that varies in it.
Written(ch, what, status, text) == [ch |-> ch, what |-> what, status |-> status, text |-> text]
Spin(what) == Written("spinner", what, 0, Empty)
Line(what) == Written("stdout", what, 0, Empty)
ErrLine(what, status) == Written("stderr", what, status, Empty)
Lines(tags) == [i \in 1..Len(tags) |-> Line(tags[i])]

\* JSON.stringify(data) of an error body, as tokens.
StringifyField(name, f) == IF f.present THEN <<name, ":", "\"">> \o f.text \o <<"\"">> ELSE <<>>
StringifyBody(b) ==
    <<"{">> \o StringifyField("detail", b.detail)
        \o (IF b.detail.present /\ b.error.present THEN <<",">> ELSE <<>>)
        \o StringifyField("error", b.error) \o <<"}">>

ErrorDetail_ErrorFirst(b) == OrElse(b.error.text, OrElse(b.detail.text, StringifyBody(b)))

\* data?.detail || data?.error || JSON.stringify(data)
ErrorDetail(b) == OrElse(b.detail.text, OrElse(b.error.text, StringifyBody(b)))

\* handleError(error): the message of the Error it throws. A TypeError
\* raised inside the try of the API function (response.data is null) has
\* neither response nor request and lands in the last branch.
handleError(r) ==
    CASE r.kind = "status" -> Written("stderr", "TaxJar API Error", r.status, ErrorDetail(r.body))
      [] r.kind = "no response" -> ErrLine("Network error", 0)
      [] OTHER -> ErrLine("Request error", 0)

\* The TypeError of reading a property of undefined.
TypeError == ErrLine("TypeError", 0)

\* What the API function returns from a 2xx: response.data.<field>.
Result(c, r) == [defined |-> r.defined, list |-> c \in ListCommands, items |-> r.items]

----------------------------------------------------------------------------
(* Rendering, src/src/index.js.                                            *)

\* JSON.stringify(data, null, 2) as tokens: an array of its entries, an
\* object, or, for undefined, the value undefined that console.log prints
\* as the word.
RECURSIVE Join(_)
Join(items) ==
    IF Len(items) = 0 THEN <<>>
    ELSE IF Len(items) = 1 THEN items
    ELSE <<Head(items), ",">> \o Join(Tail(items))

JsonStringify(data) ==
    IF ~data.defined THEN <<"undefined">>
    ELSE IF data.list THEN <<"[">> \o Join(data.items) \o <<"]">>
    ELSE <<"{">> \o data.items \o <<"}">>

\* printJson(data).
printJson(data) == <<Written("stdout", "JSON", 0, JsonStringify(data))>>

\* A line that shows the entry e of a list.
Row(what, e) == Written("stdout", what, 0, <<e>>)

printTable_Reversed(data) ==
    IF Len(data) = 0 THEN Lines(<<"No results found.">>)
    ELSE Lines(<<"header", "separator">>)
            \o [i \in 1..Len(data) |-> Row("row", data[Len(data) + 1 - i])]

\* printTable(data, columns): the sentinel for no rows, else the header, the
\* separator and one line per row, in the order of data.
printTable(data) ==
    IF Len(data) = 0 THEN Lines(<<"No results found.">>)
    ELSE Lines(<<"header", "separator">>) \o [i \in 1..Len(data) |-> Row("row", data[i])]

\* The lines a handler prints in human mode before it first reads a property
\* of the result.
HumanHead(c) ==
    CASE c = "tax calculate" -> <<"", "Tax Calculation Result", "rule", "Order Amount">>
      [] c = "rates get" -> <<"", "Tax Rates for", "rule">>
      [] c \in {"orders get", "refunds get"} -> <<"">>
      [] c = "validate vat" -> <<"", "VAT Validation Result", "rule">>
      [] OTHER -> <<>>

\* addresses.forEach: a blank line and the Match line per address. Lines
\* printed only for fields the entity carries (street, city, ...) are left out.
RECURSIVE Matches(_)
Matches(data) ==
    IF Len(data) = 0 THEN <<>>
    ELSE <<Line(""), Row("Match", Head(data))>> \o Matches(Tail(data))

\* The lines that follow for a result that is there. Lines printed only for
\* fields the entity carries (breakdown, city, line items, ...) are left out.
HumanRest(c, data) ==
    CASE c = "tax calculate" ->
            Lines(<<"Taxable Amount", "Shipping", "Freight Taxable", "Tax Rate",
                    "Tax to Collect", "Has Nexus">>)
      [] c = "rates get" -> Lines(<<"", "Combined Rate">>)
      [] c \in {"rates summary", "nexus list", "categories list"} -> printTable(data.items)
      [] c = "orders list" ->
            IF Len(data.items) = 0 THEN Lines(<<"No orders found for the given criteria.">>)
            ELSE printTable(data.items) \o Lines(<<"Use taxjar orders get">>)
      [] c = "orders get" ->
            Lines(<<"Order", "rule", "Transaction Date", "Amount", "Shipping", "Sales Tax">>)
      [] c \in {"orders create", "orders update"} ->
            Lines(<<"Transaction ID", "Amount", "Sales Tax">>)
      [] c = "orders delete" -> Lines(<<"Deleted transaction">>)
      [] c = "refunds list" ->
            IF Len(data.items) = 0 THEN Lines(<<"No refunds found for the given criteria.">>)
            ELSE printTable(data.items)
      [] c = "refunds get" ->
            Lines(<<"Refund", "rule", "Transaction Date", "Refund Amount", "Sales Tax Refund">>)
      [] c = "refunds create" -> Lines(<<"Transaction ID", "Refund Amount", "Sales Tax">>)
      [] c = "validate address" -> Matches(data.items)
      [] c = "validate vat" -> Lines(<<"VAT Number", "Valid">>)

Catch_ExitZero(written, message) ==
    [spinner |-> "failed", out |-> written \o <<Spin("fail"), message>>, exitCode |-> 0]

\* catch (error): the spinner fails, the message is printed, process.exit(1).
Catch(written, message) ==
    [spinner |-> "failed", out |-> written \o <<Spin("fail"), message>>, exitCode |-> 1]

\* The handler ran to its end.
Completed(written) == [spinner |-> "succeeded", out |-> written, exitCode |-> 0]

\* The handler from the moment its awaited call settles with response r.
\* A list handler reads result.length for the spinner's success text; every
\* other handler but orders delete reads the result while it prints.
AfterAwait(c, o, r) ==
    LET data == Result(c, r)
    IN  IF r.kind # "2xx" THEN Catch(<<>>, handleError(r))
        ELSE IF c \in ListCommands /\ ~data.defined THEN Catch(<<>>, TypeError)
        ELSE IF "json" \in DOMAIN o THEN Completed(<<Spin("succeed")>> \o printJson(data))
        ELSE IF c # "orders delete" /\ ~data.defined
             THEN Catch(<<Spin("succeed")>> \o Lines(HumanHead(c)), TypeError)
        ELSE Completed(<<Spin("succeed")>> \o Lines(HumanHead(c)) \o HumanRest(c, data))

----------------------------------------------------------------------------
(* printTable in full, src/src/index.js lines 33-56: the text of each line. *)

\* Most columns and most rows of the tables printTable is applied to.
MaxColumns == 2
MaxRows == 2

\* The value of a property of a row: undefined (no such property), null, a
\* text or number, or a nested object with a rate.
Undefined == [kind |-> "undefined", text |-> Empty, rate |-> Empty]
Null == [kind |-> "null", text |-> Empty, rate |-> Empty]
Text(t) == [kind |-> "text", text |-> t, rate |-> Empty]
Obj(rate) == [kind |-> "object", text |-> Empty, rate |-> rate]

\* row[col.key]: the property named by the whole key, dots included.
Lookup(row, key) == IF key \in DOMAIN row THEN row[key] ELSE Undefined

\* String(row[col.key] ?? '')
ObjectObject == <<"[", "o", "b", "j", "e", "c", "t", " ", "O", "b", "j", "e", "c", "t", "]">>
CellText(row, key) ==
    LET v == Lookup(row, key)
    IN  IF v.kind \in {"undefined", "null"} THEN Empty
        ELSE IF v.kind = "object" THEN ObjectObject
        ELSE v.text

\* String.prototype.padEnd and String.prototype.repeat.
Repeat(ch, n) == [i \in 1..n |-> ch]
padEnd(t, w) == IF Len(t) >= w THEN t ELSE t \o Repeat(" ", w - Len(t))

\* Array.prototype.join('  ').
RECURSIVE JoinCells(_)
JoinCells(cells) ==
    IF Len(cells) = 0 THEN Empty
    ELSE IF Len(cells) = 1 THEN cells[1]
    ELSE cells[1] \o <<" ", " ">> \o JoinCells(Tail(cells))

\* The longest cell text of a key over the rows, at least n.
RECURSIVE Widest(_, _, _)
Widest(rows, key, n) ==
    IF Len(rows) = 0 THEN n
    ELSE Widest(Tail(rows), key, Max(n, Len(CellText(Head(rows), key))))

colWidths_LabelOnly(rows, columns, key) ==
    LET last == CHOOSE i \in 1..Len(columns) :
                    /\ columns[i].key = key
                    /\ \A j \in (i + 1)..Len(columns) : columns[j].key # key
    IN  Len(columns[last].label)

\* colWidths[key] after the columns.forEach of lines 40-46: the object is
\* keyed by col.key, and each column starts its key's entry again from its
\* own label, so the entry is the one the last column of that key leaves.
colWidths(rows, columns, key) ==
    LET last == CHOOSE i \in 1..Len(columns) :
                    /\ columns[i].key = key
                    /\ \A j \in (i + 1)..Len(columns) : columns[j].key # key
    IN  Widest(rows, key, Len(columns[last].label))

\* The lines printTable writes.
printTableText(rows, columns) ==
    IF Len(rows) = 0 THEN <<<<"N", "o", " ", "r", "e", "s", "u", "l", "t", "s", " ", "f", "o", "u", "n", "d", ".">>>>
    ELSE LET W(i) == colWidths(rows, columns, columns[i].key)
             header == JoinCells([i \in 1..Len(columns) |-> padEnd(columns[i].label, W(i))])
             separator == JoinCells([i \in 1..Len(columns) |-> Repeat("-", W(i))])
             line(row) ==
                JoinCells([i \in 1..Len(columns) |->
                            padEnd(CellText(row, columns[i].key), W(i))])
         IN  <<header, separator>> \o [r \in 1..Len(rows) |-> line(rows[r])]

\* A column of a table.
Column(key, label) == [key |-> key, label |-> label]

\* The columns of rates summary, index.js lines 231-238.
RatesSummaryColumns ==
    <<Column("country_code", <<"C", "o", "u", "n", "t", "r", "y">>),
      Column("country", <<"C", "o", "u", "n", "t", "r", "y", " ", "N", "a", "m", "e">>),
      Column("region_code", <<"R", "e", "g", "i", "o", "n">>),
      Column("region", <<"R", "e", "g", "i", "o", "n", " ", "N", "a", "m", "e">>),
      Column("minimum_rate.rate", <<"M", "i", "n", " ", "R", "a", "t", "e">>),
      Column("average_rate.rate", <<"A", "v", "g", " ", "R", "a", "t", "e">>)>>

\* The columns of orders list and refunds list, index.js lines 341-343.
TransactionColumns == <<Column("transaction_id", <<"T", "r", "a", "n", "s", "a", "c", "t", "i", "o", "n", " ", "I", "D">>)>>

\* Entries of a summary_rates response: with both rates, and without the
\* average one.
SummaryRateRows ==
    LET base == [country_code |-> Text(<<"U", "S">>),
                 country |-> Text(<<"U", "n", "i", "t", "e", "d", " ", "S", "t", "a", "t", "e", "s">>),
                 region_code |-> Text(<<"C", "A">>),
                 region |-> Text(<<"C", "a", "l", "i", "f", "o", "r", "n", "i", "a">>)]
    IN  {base @@ [minimum_rate |-> Obj(<<"0", ".", "0", "7">>),
                  average_rate |-> Obj(<<"0", ".", "0", "8">>)],
         base @@ [minimum_rate |-> Obj(<<"0", ".", "0", "5">>)]}

\* Rows of transaction ids: orders.map(id => ({ transaction_id: id })).
TransactionRows ==
    {[transaction_id |-> Text(t)] : t \in {<<"7">>, <<"O", "R", "D", "E", "R", "-", "1", "2", "3", "4", "5", "6", "7", "8", "9", "0">>}}

\* Tables over two keys: each property missing, null, short or long, under
\* column lists that may name a key twice.
SmallKeys == {"a", "b"}
SmallValues == {Null, Text(<<"x">>), Text(<<"w", "i", "d", "e", "r">>)}
SmallRows == UNION {[D -> SmallValues] : D \in SUBSET SmallKeys}
SmallColumns == {Column(k, l) : k \in SmallKeys, l \in {<<"A">>, <<"L", "o", "n", "g">>}}

\* The sequences over S of length lo to hi.
SeqsOf(S, lo, hi) == UNION {[1..n -> S] : n \in lo..hi}

\* The tables printTable is applied to: columns and rows.
Table(columns, rows) == [columns |-> columns, rows |-> rows]
NoTable == Table(<<>>, <<>>)
Tables ==
    {Table(RatesSummaryColumns, rows) : rows \in SeqsOf(SummaryRateRows, 0, MaxRows)}
    \cup {Table(TransactionColumns, rows) : rows \in SeqsOf(TransactionRows, 0, MaxRows)}
    \cup {Table(columns, rows) : columns \in SeqsOf(SmallColumns, 1, MaxColumns),
                                 rows \in SeqsOf(SmallRows, 0, MaxRows)}

----------------------------------------------------------------------------
(* The inputs of the model.                                                *)

\* API keys of the command-line specification.
CliKeys == {Empty, <<"k", "1">>}

\* API keys of the config-store specification: every length up to MaxKeyLen,
\* the characters cycling from three starting points.
KeyChars == <<"a", "b", "c", "d", "e", "f", "g">>
Key(from, n) == [i \in 1..n |-> KeyChars[((from + i - 1) % Len(KeyChars)) + 1]]
LongKeys == {Key(from, n) : from \in 0..2, n \in 0..MaxKeyLen}
LongEnvKeys == {Key(1, n) : n \in {0, 3, MaxKeyLen}}

\* Values of TAXJAR_BASE_URL (unset is the empty string) and of baseUrl in the
\* configuration file: the schema default when the file has none, else any
\* string, the empty one included (the schema asks for type string only).
EnvBaseUrls == {Empty, <<"https://api.sandbox.taxjar.com/v2">>}
StoredBaseUrls == {DefaultBaseUrl, <<"https://proxy.example/v2">>, Empty}

\* Texts given to a text flag and to a numeric flag.
TextValues == {Empty, <<"v">>}
NumTexts == {Empty, <<"x">>, <<"5">>, <<"5", "x">>, <<"-", "5", ".", "5">>}

\* commander's value of a boolean flag that was given.
True == <<"true">>

\* The plain command line of c: every required flag with a well-formed value.
Plain(c) == [f \in Required(c) |-> IF f \in Numeric(c) THEN <<"5">> ELSE <<"v">>]

\* The sets of flags in which a command line may differ from the plain one,
\* at most m of them; the key of config set is always one.
Varied(c, m) ==
    IF c = "config set" THEN {{"apiKey"}}
    ELSE {D \in SUBSET Flags(c) : Cardinality(D) <= m}

\* The command line that leaves the flags of D \ P out and gives those of P
\* the texts vk (keys), vn (numeric) and vt (text).
Given(c, D, P, vk, vn, vt) ==
    [f \in (Required(c) \ D) \cup P |->
        IF f \notin P THEN Plain(c)[f]
        ELSE IF f = "json" THEN True
        ELSE IF f \in DOMAIN vk THEN vk[f]
        ELSE IF f \in DOMAIN vn THEN vn[f]
        ELSE vt[f]]

----------------------------------------------------------------------------
(* The state machine.                                                      *)

NothingShown == [apiKey |-> Empty, baseUrl |-> Empty, configPath |-> Empty]
NoEnv == [TAXJAR_API_KEY |-> Empty, TAXJAR_BASE_URL |-> Empty]

\* A fresh process: nothing parsed, sent or written.
Fresh ==
    /\ pc = "idle"
    /\ env = NoEnv
    /\ cmd = ""
    /\ argv = <<>>
    /\ requests = <<>>
    /\ response = NotSettled
    /\ spinner = "none"
    /\ out = <<>>
    /\ exitCode = -1
    /\ shown = NothingShown

\* No key was stored yet: apiKey holds its schema default.
Init ==
    /\ table = NoTable
    /\ printed = <<>>
    /\ store \in [apiKey : {Empty}, baseUrl : StoredBaseUrls]
    /\ lastSet = [set |-> FALSE, key |-> Empty, baseUrl |-> store.baseUrl, overwrote |-> FALSE]
    /\ Fresh

\* The user starts a subcommand with some command line, which differs from
\* the plain one in at most m flags, and some environment.
InvokeWith(keys, envKeys, envUrls, m) ==
    /\ pc = "idle"
    /\ \E c \in Commands, ek \in envKeys, eu \in envUrls :
        \E D \in Varied(c, m) : \E P \in SUBSET D :
            \E vk \in [P \cap {"apiKey"} -> keys],
               vn \in [P \cap Numeric(c) -> NumTexts],
               vt \in [P \ (Numeric(c) \cup {"apiKey", "json"}) -> TextValues] :
                /\ cmd' = c
                /\ argv' = Given(c, D, P, vk, vn, vt)
                /\ env' = [TAXJAR_API_KEY |-> ek, TAXJAR_BASE_URL |-> eu]
    /\ pc' = "parsing"
    /\ UNCHANGED <<store, requests, response, spinner, out, exitCode, shown, lastSet, table, printed>>

\* Command lines of every shape, no TAXJAR_* variable in the environment.
Invoke == InvokeWith(CliKeys, {Empty}, {Empty}, MaxVaried)

\* Plain command lines, keys and environments of every shape.
InvokeConfig == InvokeWith(LongKeys, LongEnvKeys, EnvBaseUrls, 0)

\* commander checks the command line against the declared shape: a missing
\* required option or argument is reported and the process exits with 1
\* before any action handler runs.
ParseArgs ==
    /\ pc = "parsing"
    /\ IF MissingRequired(cmd, argv) # {}
       THEN /\ out' = <<ErrLine("error: required option or argument missing", 0)>>
            /\ exitCode' = 1
            /\ pc' = "exited"
       ELSE /\ pc' = "running"
            /\ UNCHANGED <<out, exitCode>>
    /\ UNCHANGED <<store, env, cmd, argv, requests, response, spinner, shown, lastSet, table, printed>>

\* config set: the handler of index.js lines 66-70.
RunConfigSet ==
    /\ pc = "running"
    /\ cmd = "config set"
    /\ store' = setApiKey(store, Options(cmd, argv).apiKey)
    /\ lastSet' = [set |-> TRUE, key |-> Options(cmd, argv).apiKey, baseUrl |-> store.baseUrl,
                    overwrote |-> Truthy(store.apiKey) /\ store.apiKey # Options(cmd, argv).apiKey]
    /\ out' = Lines(<<"API key saved successfully.",
                      "You can also set TAXJAR_API_KEY as an environment variable.">>)
    /\ exitCode' = 0
    /\ pc' = "exited"
    /\ UNCHANGED <<env, cmd, argv, requests, response, spinner, shown, table, printed>>

RunConfigShow_SavesKey ==
    /\ pc = "running"
    /\ cmd = "config show"
    /\ shown' = showConfig(env, store)
    /\ store' = [store EXCEPT !.apiKey = OrElse(store.apiKey, env.TAXJAR_API_KEY)]
    /\ out' = Lines(<<"TaxJar CLI Configuration", "rule", "API Key:", "Base URL:",
                      "Config file:">>)
    /\ exitCode' = 0
    /\ pc' = "exited"
    /\ UNCHANGED <<env, cmd, argv, requests, response, spinner, lastSet, table, printed>>

\* config show: the handler of index.js lines 75-82.
RunConfigShow ==
    /\ pc = "running"
    /\ cmd = "config show"
    /\ shown' = showConfig(env, store)
    /\ out' = Lines(<<"TaxJar CLI Configuration", "rule", "API Key:", "Base URL:",
                      "Config file:">>)
    /\ exitCode' = 0
    /\ pc' = "exited"
    /\ UNCHANGED <<store, env, cmd, argv, requests, response, spinner, lastSet, table, printed>>

\* The instructions getApiKey prints before process.exit(1).
NoKeyMessage ==
    <<ErrLine("Error: No API key configured.", 0),
      ErrLine("Set your API key with:", 0),
      ErrLine("  taxjar config set --api-key <your-api-key>", 0),
      ErrLine("Or set the TAXJAR_API_KEY environment variable.", 0)>>

\* The request an API function makes on its client.
Request(call, client) ==
    [method |-> call.method, path |-> call.path, id |-> call.id, via |-> call.via,
     params |-> call.params, baseURL |-> client.baseURL,
     Authorization |-> client.Authorization, timeout |-> client.timeout]

Send_Twice(sent, call, client) ==
    Append(Append(sent, Request(call, client)), Request(call, client))

\* await client.<method>(...): the one request of the API function goes out.
Send(sent, call, client) == Append(sent, Request(call, client))

\* An API handler up to its await: the spinner starts, the parameters are
\* assembled, the client is created (which ends the process when there is no
\* key) and the request is sent.
RunApiCommand ==
    /\ pc = "running"
    /\ cmd \in ApiCommands
    /\ spinner' = "spinning"
    /\ LET o == Options(cmd, argv)
           call == ApiCall(cmd, o)
           client == createClient(env, store)
       IN  IF client.exit
           THEN /\ out' = <<Spin("start")>> \o NoKeyMessage
                /\ exitCode' = 1
                /\ pc' = "exited"
                /\ UNCHANGED requests
           ELSE /\ out' = <<Spin("start")>>
                /\ requests' = Send(requests, call, client)
                /\ pc' = "awaiting"
                /\ UNCHANGED exitCode
    /\ UNCHANGED <<store, env, cmd, argv, response, shown, lastSet, table, printed>>

\* The awaited call settles and the handler runs to its end.
Settle ==
    /\ pc = "awaiting"
    /\ \E r \in Responses(cmd) :
        LET end == AfterAwait(cmd, Options(cmd, argv), r)
        IN  /\ response' = r
            /\ spinner' = end.spinner
            /\ out' = out \o end.out
            /\ exitCode' = end.exitCode
    /\ pc' = "exited"
    /\ UNCHANGED <<store, env, cmd, argv, requests, shown, lastSet, table, printed>>

\* The process is gone; the next one starts with the store as it was left.
NextInvocation ==
    /\ pc = "exited"
    /\ pc' = "idle"
    /\ env' = NoEnv
    /\ cmd' = ""
    /\ argv' = <<>>
    /\ requests' = <<>>
    /\ response' = NotSettled
    /\ spinner' = "none"
    /\ out' = <<>>
    /\ exitCode' = -1
    /\ shown' = NothingShown
    /\ UNCHANGED <<store, lastSet, table, printed>>

\* The command-line client, command lines of every shape.
Next ==
    \/ Invoke
    \/ ParseArgs
    \/ RunConfigSet
    \/ RunConfigShow
    \/ RunApiCommand
    \/ Settle
    \/ NextInvocation

Spec == Init /\ [][Next]_vars

\* The command-line client, credentials of every shape: keys of every length
\* up to MaxKeyLen, stored and in the environment.
NextConfig ==
    \/ InvokeConfig
    \/ ParseArgs
    \/ RunConfigSet
    \/ RunConfigShow
    \/ RunApiCommand
    \/ Settle
    \/ NextInvocation

SpecConfig == Init /\ [][NextConfig]_vars

\* printTable alone, applied to every table of Tables.
InitTable ==
    /\ table \in Tables
    /\ printed = <<>>
    /\ store = [apiKey |-> Empty, baseUrl |-> DefaultBaseUrl]
    /\ lastSet = [set |-> FALSE, key |-> Empty, baseUrl |-> store.baseUrl, overwrote |-> FALSE]
    /\ Fresh

PrintTable ==
    /\ printed = <<>>
    /\ printed' = printTableText(table.rows, table.columns)
    /\ UNCHANGED <<store, env, pc, cmd, argv, requests, response, spinner, out, exitCode,
                   shown, lastSet, table>>

NextTable == PrintTable

SpecTable == InitTable /\ [][NextTable]_vars

----------------------------------------------------------------------------
(* Vocabulary of the properties.                                           *)

\* The request parameter that carries a flag.
FieldOf(f) ==
    CASE f = "fromCountry" -> "from_country"
      [] f = "fromZip" -> "from_zip"
      [] f = "fromState" -> "from_state"
      [] f = "fromCity" -> "from_city"
      [] f = "fromStreet" -> "from_street"
      [] f = "toCountry" -> "to_country"
      [] f = "toZip" -> "to_zip"
      [] f = "toState" -> "to_state"
      [] f = "toCity" -> "to_city"
      [] f = "toStreet" -> "to_street"
      [] f = "salesTax" -> "sales_tax"
      [] f = "transactionId" -> "transaction_id"
      [] f = "transactionDate" -> "transaction_date"
      [] f = "transactionReferenceId" -> "transaction_reference_id"
      [] f = "fromDate" -> "from_transaction_date"
      [] f = "toDate" -> "to_transaction_date"
      [] f = "vatNumber" -> "vat"
      [] OTHER -> f

\* The whole text is a decimal number: an optional sign, digits with at most
\* one point among them, at least one digit.
IsNumber(t) ==
    LET body == IF Len(t) > 0 /\ t[1] \in {"+", "-"} THEN Tail(t) ELSE t
    IN  /\ \A i \in 1..Len(body) : body[i] \in Digits \cup {"."}
        /\ Cardinality({i \in 1..Len(body) : body[i] = "."}) <= 1
        /\ \E i \in 1..Len(body) : body[i] \in Digits

\* A request of this invocation is on the wire or was answered.
Sent == Len(requests) > 0

\* The invocation supplies every required flag and no optional one.
RequiredOnly == cmd \in ApiCommands /\ DOMAIN argv = Required(cmd)

\* A key is available to the invocation from either source.
KeyAvailable == Truthy(env.TAXJAR_API_KEY) \/ Truthy(store.apiKey)

\* The optional text flags of the running command that declare no default.
GuardedTextFlags == Optional(cmd) \ (Numeric(cmd) \cup DOMAIN Defaults(cmd))

\* The spinner was flipped to success, resp. to failure, in this invocation.
SuccessRendered == \E i \in 1..Len(out) : out[i] = Spin("succeed")
ErrorRendered == \E i \in 1..Len(out) : out[i] = Spin("fail")

----------------------------------------------------------------------------
(* C1: a numeric flag (--amount, --shipping, --sales-tax) whose text is not *)
(* a number makes the invocation fail before any HTTP request is sent, and  *)
(* no request carries a NaN amount.                                         *)
(* The handlers pass the text to parseFloat and send whatever it returns.   *)
C1_NonNumericFailsBeforeRequest ==
    /\ (cmd \in ApiCommands /\ \E f \in Numeric(cmd) \cap DOMAIN argv : ~IsNumber(argv[f]))
            => ~Sent
    /\ \A i \in 1..Len(requests) : \A f \in DOMAIN requests[i].params :
            requests[i].params[f] # NaN

----------------------------------------------------------------------------
(* C2, as stated: with every required flag and no optional flag (and a key  *)
(* available) exactly one request is sent and its parameters contain only   *)
(* the fields of the required flags.                                        *)
C2_OnlyRequiredFields ==
    (RequiredOnly /\ KeyAvailable /\ pc \in {"awaiting", "exited"}) =>
        /\ Len(requests) = 1
        /\ DOMAIN requests[1].params \subseteq {FieldOf(f) : f \in Required(cmd)}

(* C2, amended: with every required flag and no optional flag, and a key    *)
(* available, exactly one request is sent; its parameters contain only the  *)
(* fields of the required flags and of the optional flags that declare a    *)
(* default, and each defaulted field is there with its default (shipping 0  *)
(* for tax calculate, country US for rates get).                            *)
C2_OnlyRequiredAndDefaultedFields ==
    (RequiredOnly /\ KeyAvailable /\ pc \in {"awaiting", "exited"}) =>
        /\ Len(requests) = 1
        /\ DOMAIN requests[1].params \subseteq
                {FieldOf(f) : f \in Required(cmd) \cup DOMAIN Defaults(cmd)}
        /\ cmd = "tax calculate" => requests[1].params["shipping"] = Num(0, 1)
        /\ cmd = "rates get" => requests[1].params["country"] = Str(<<"U", "S">>)

C2_Witness ==
    /\ RequiredOnly
    /\ cmd = "tax calculate"
    /\ pc = "exited"
    /\ Len(requests) = 1
    /\ DOMAIN requests[1].params =
            {"from_country", "from_zip", "from_state", "to_country", "to_zip", "to_state",
             "amount", "shipping"}

----------------------------------------------------------------------------
(* C3, as stated: the parameters contain the field of an optional text flag *)
(* (city, street, state, zip, address parts, date range, status) if and     *)
(* only if the flag was given a non-empty value, and a request never        *)
(* carries an empty string for an optional field.                           *)
C3_NoEmptyOptionalField ==
    (cmd \in ApiCommands /\ Sent) =>
        /\ \A f \in GuardedTextFlags :
                FieldOf(f) \in DOMAIN requests[1].params
                    <=> (f \in DOMAIN argv /\ argv[f] # Empty)
        /\ \A f \in Optional(cmd) \ Numeric(cmd) :
                FieldOf(f) \in DOMAIN requests[1].params
                    => requests[1].params[FieldOf(f)] # Str(Empty)

(* C3, amended: for every optional text flag that declares no default the   *)
(* parameters contain its field if and only if the flag was given a         *)
(* non-empty value, and then with that value, never an empty string. The    *)
(* one optional text flag with a default, --country of rates get, is always *)
(* sent, with the text given (an empty string when given empty) or US.      *)
C3_GuardedOptionalFields ==
    (cmd \in ApiCommands /\ Sent) =>
        /\ \A f \in GuardedTextFlags :
                /\ FieldOf(f) \in DOMAIN requests[1].params
                        <=> (f \in DOMAIN argv /\ argv[f] # Empty)
                /\ FieldOf(f) \in DOMAIN requests[1].params
                        => /\ requests[1].params[FieldOf(f)] = Str(argv[f])
                           /\ requests[1].params[FieldOf(f)] # Str(Empty)
        /\ cmd = "rates get" =>
                requests[1].params["country"] =
                    Str(IF "country" \in DOMAIN argv THEN argv["country"] ELSE <<"U", "S">>)

C3_Witness ==
    /\ cmd \in ApiCommands
    /\ Sent
    /\ \E f, g \in GuardedTextFlags \cap DOMAIN argv :
            /\ argv[f] = Empty
            /\ argv[g] = <<"v">>
            /\ FieldOf(f) \notin DOMAIN requests[1].params
            /\ FieldOf(g) \in DOMAIN requests[1].params

----------------------------------------------------------------------------
(* C4: every invocation follows idle -> parsing -> (error-exit | dispatch   *)
(* -> success-render | dispatch -> error-render-and-exit): a missing        *)
(* required flag ends in error-exit with no request sent, and an invocation *)
(* that reached dispatch ends in exactly one of success-render and          *)
(* error-render-and-exit, never both and never neither.                     *)
C4_SingleShotPath ==
    /\ (pc = "exited" /\ MissingRequired(cmd, argv) # {}) =>
            (~Sent /\ exitCode = 1 /\ ~SuccessRendered)
    /\ (pc = "exited" /\ Sent) =>
            /\ SuccessRendered # ErrorRendered
            /\ SuccessRendered <=> exitCode = 0
            /\ ErrorRendered <=> exitCode = 1

----------------------------------------------------------------------------
(* C5: the bearer token of every request sent is the value of the           *)
(* TAXJAR_API_KEY environment variable when that is present and non-empty,  *)
(* and the stored key only otherwise.                                       *)
C5_EnvKeyTakesPrecedence ==
    \A i \in 1..Len(requests) :
        requests[i].Authorization =
            <<"Bearer ">> \o (IF env.TAXJAR_API_KEY # Empty THEN env.TAXJAR_API_KEY
                              ELSE store.apiKey)

C5_Witness ==
    /\ Sent
    /\ env.TAXJAR_API_KEY # Empty
    /\ store.apiKey # Empty
    /\ env.TAXJAR_API_KEY # store.apiKey
    /\ requests[1].Authorization = <<"Bearer ">> \o env.TAXJAR_API_KEY

----------------------------------------------------------------------------
(* C6: the key config show displays (masked) is the key an API request of   *)
(* the same process would authenticate with: with both the environment      *)
(* variable and a different stored key present, show() returns the masked   *)
(* form of the environment variable's value.                                *)
C6_ShowDisplaysRequestKey ==
    (cmd = "config show" /\ pc = "exited" /\ exitCode = 0
        /\ env.TAXJAR_API_KEY # Empty /\ store.apiKey # Empty)
    => shown.apiKey =
            JsSlice(env.TAXJAR_API_KEY, 0, 4) \o KeyMask \o JsSliceFrom(env.TAXJAR_API_KEY, -4)

----------------------------------------------------------------------------
(* C7: when neither the environment variable nor the config store holds a   *)
(* non-empty key, an API command (whose command line parsed) prints the     *)
(* configuration instructions and exits with status 1, and no HTTP request  *)
(* is sent.                                                                 *)
C7_MissingCredentialExits ==
    (cmd \in ApiCommands /\ ~KeyAvailable) =>
        /\ ~Sent
        /\ pc # "awaiting"
        /\ (pc = "exited" /\ MissingRequired(cmd, argv) = {}) =>
                /\ exitCode = 1
                /\ \A i \in 1..Len(NoKeyMessage) :
                        \E j \in 1..Len(out) : out[j] = NoKeyMessage[i]

C7_Witness ==
    /\ cmd \in ApiCommands
    /\ ~KeyAvailable
    /\ MissingRequired(cmd, argv) = {}
    /\ pc = "exited"
    /\ exitCode = 1
    /\ out = <<Spin("start")>> \o NoKeyMessage

----------------------------------------------------------------------------
(* C8: for a stored key of length n >= 8 the apiKey field show() returns is *)
(* the key's first 4 characters, a mask and the key's last 4 characters;    *)
(* the mask is the same four stars for every n, and nothing else of the key *)
(* appears.                                                                 *)
C8_MaskingLaw ==
    (cmd = "config show" /\ pc = "exited" /\ exitCode = 0 /\ Len(store.apiKey) >= 8) =>
        /\ Len(shown.apiKey) = 12
        /\ \A i \in 1..4 : shown.apiKey[i] = store.apiKey[i]
        /\ \A i \in 5..8 : shown.apiKey[i] = "*"
        /\ \A i \in 9..12 : shown.apiKey[i] = store.apiKey[Len(store.apiKey) - 12 + i]

C8_Witness ==
    /\ cmd = "config show"
    /\ pc = "exited"
    /\ Len(store.apiKey) = 9
    /\ store.apiKey = <<"a", "b", "c", "d", "e", "f", "g", "a", "b">>
    /\ shown.apiKey = <<"a", "b", "c", "d", "*", "*", "*", "*", "f", "g", "a", "b">>

----------------------------------------------------------------------------
(* C9: show() never returns the raw key: for every non-empty stored key of  *)
(* any length the characters the returned apiKey field reveals do not cover *)
(* the whole key, so the key cannot be read off the output.                 *)
(* The key is read off the output when some of its leading visible          *)
(* characters followed by some of its trailing visible characters spell it. *)
KeyReadable(masked, key) ==
    \E i \in 0..4, j \in 0..4 :
        /\ i + j <= Len(masked)
        /\ SubSeq(masked, 1, i) \o SubSeq(masked, Len(masked) - j + 1, Len(masked)) = key

C9_ShowNeverRevealsKey ==
    (cmd = "config show" /\ pc = "exited" /\ exitCode = 0 /\ store.apiKey # Empty) =>
        ~KeyReadable(shown.apiKey, store.apiKey)

----------------------------------------------------------------------------
(* C10: set_api_key overwrites and is idempotent, with read-after-write:    *)
(* after any sequence of calls whose last is set_api_key(k), k non-empty,   *)
(* and with no environment key, the credential a request is sent with is k; *)
(* a second set_api_key(k) would leave the store as the first left it; and  *)
(* the stored base URL is as it was before the call.                        *)
C10_SetApiKeyOverwrites ==
    lastSet.set =>
        /\ store.apiKey = lastSet.key
        /\ store.baseUrl = lastSet.baseUrl
        /\ setApiKey(store, lastSet.key) = store
        /\ (Sent /\ lastSet.key # Empty /\ env.TAXJAR_API_KEY = Empty) =>
                requests[1].Authorization = <<"Bearer ">> \o lastSet.key

C10_Witness ==
    /\ lastSet.set
    /\ lastSet.overwrote
    /\ lastSet.key = <<"b", "c", "d">>
    /\ lastSet.baseUrl # DefaultBaseUrl
    /\ env.TAXJAR_API_KEY = Empty
    /\ Sent
    /\ requests[1].Authorization = <<"Bearer ", "b", "c", "d">>

----------------------------------------------------------------------------
(* C11: the base URL of every request, and the one config show displays, is *)
(* the TAXJAR_BASE_URL environment value when that is set and non-empty,    *)
(* otherwise the stored base URL, otherwise the production endpoint         *)
(* https://api.taxjar.com/v2; it is never empty or undefined.               *)
(* getBaseUrl returns the stored value as it is: an empty baseUrl in the    *)
(* configuration file is used, not replaced by the production endpoint.     *)
ResolvedBaseUrl == OrElse(env.TAXJAR_BASE_URL, OrElse(store.baseUrl, DefaultBaseUrl))

C11_BaseUrlResolution ==
    /\ \A i \in 1..Len(requests) :
            /\ requests[i].baseURL = ResolvedBaseUrl
            /\ requests[i].baseURL # Empty
    /\ (cmd = "config show" /\ pc = "exited" /\ exitCode = 0) =>
            /\ shown.baseUrl = ResolvedBaseUrl
            /\ shown.baseUrl # Empty

----------------------------------------------------------------------------
\* The API error message of this invocation is printed with status st and
\* detail text t.
ApiErrorPrinted(st, t) ==
    \E i \in 1..Len(out) :
        /\ out[i].ch = "stderr"
        /\ out[i].what = "TaxJar API Error"
        /\ out[i].status = st
        /\ out[i].text = t

\* The request of this API command was answered with a non-2xx status.
StatusAnswered == cmd \in ApiCommands /\ pc = "exited" /\ response.kind = "status"

(* C12, as stated: a non-2xx response with status s and body b makes the    *)
(* operation fail with a message that contains s and whose detail text is   *)
(* b.detail when that field is present, otherwise b.error when present,     *)
(* otherwise the serialized raw body.                                       *)
C12_DetailWhenPresent ==
    StatusAnswered =>
        /\ exitCode = 1
        /\ ApiErrorPrinted(response.status,
                IF response.body.detail.present THEN response.body.detail.text
                ELSE IF response.body.error.present THEN response.body.error.text
                ELSE StringifyBody(response.body))

(* C12, amended: the detail text is b.detail when that field is present and *)
(* not empty, otherwise b.error when present and not empty, otherwise the   *)
(* serialized raw body; a non-empty detail or error is never replaced by    *)
(* the raw body, an empty one is passed over like an absent one.            *)
C12_DetailWhenNonEmpty ==
    StatusAnswered =>
        /\ exitCode = 1
        /\ ApiErrorPrinted(response.status,
                IF response.body.detail.text # Empty THEN response.body.detail.text
                ELSE IF response.body.error.text # Empty THEN response.body.error.text
                ELSE StringifyBody(response.body))
        /\ (response.body.detail.text # Empty \/ response.body.error.text # Empty)
                => ~ApiErrorPrinted(response.status, StringifyBody(response.body))

C12_Witness ==
    /\ StatusAnswered
    /\ response.status = 404
    /\ response.body = [detail |-> Field(Empty), error |-> Field(<<"e">>)]
    /\ ApiErrorPrinted(404, <<"e">>)

----------------------------------------------------------------------------
\* An error message of the given kind was printed in this invocation.
ErrorPrinted(what) == \E i \in 1..Len(out) : out[i].ch = "stderr" /\ out[i].what = what

\* The error kinds of the API client.
ErrorKinds == {"TaxJar API Error", "Network error", "Request error"}

\* The API operation of this invocation failed: it threw instead of
\* returning what it unwrapped from a 2xx.
OperationFailed ==
    cmd \in ApiCommands /\ pc = "exited" /\ response.kind \notin {"none", "2xx"}

(* C13: every failure of an API operation is classified as exactly one of   *)
(* ApiError (a response was received), NetworkError (the request was sent   *)
(* and no response was received) and RequestError (the request could not be *)
(* sent at all), and a failed operation returns no value to its caller.     *)
(* A 2xx whose body is the JSON null makes response.data.<field> throw      *)
(* inside the try; handleError finds neither response nor request on that   *)
(* TypeError and reports a Request error, although a response was received. *)
C13_FailureClassification ==
    OperationFailed =>
        LET kind == CASE response.kind \in {"status", "null body"} -> "TaxJar API Error"
                      [] response.kind = "no response" -> "Network error"
                      [] OTHER -> "Request error"
        IN  /\ ErrorPrinted(kind)
            /\ \A k \in ErrorKinds \ {kind} : ~ErrorPrinted(k)
            /\ ~SuccessRendered
            /\ exitCode = 1

----------------------------------------------------------------------------
\* The API handler of this invocation got as far as its request: the
\* command line parsed and a key was there to build the client with.
Dispatched ==
    /\ cmd \in ApiCommands
    /\ pc \in {"awaiting", "exited"}
    /\ MissingRequired(cmd, argv) = {}
    /\ KeyAvailable

(* C14: every execution of an API command that reaches dispatch sends       *)
(* exactly one HTTP request, whatever its outcome: a failed request is not  *)
(* retried, no second request is issued, and the process does not exit      *)
(* while the request is outstanding.                                        *)
C14_ExactlyOneRequest ==
    /\ Dispatched => Len(requests) = 1
    /\ Len(requests) <= 1
    /\ pc = "awaiting" => (response = NotSettled /\ exitCode = -1)
    /\ (pc = "exited" /\ Sent) => (response # NotSettled /\ exitCode \in {0, 1})

C14_Witness ==
    /\ Dispatched
    /\ cmd = "orders delete"
    /\ pc = "exited"
    /\ response.kind = "no response"
    /\ exitCode = 1
    /\ Len(requests) = 1
    /\ requests[1].method = "DELETE"

----------------------------------------------------------------------------
\* The invocation ended with an error message and a non-zero exit.
EndedInError ==
    /\ pc = "exited"
    /\ exitCode # 0
    /\ \E i \in 1..Len(out) : out[i].ch = "stderr"

(* C15: no invocation prints part of a result and then an error: when an    *)
(* invocation ends with an error message and a non-zero exit, no line of    *)
(* the JSON or human-readable result was written to standard output before  *)
(* the error, also for a 2xx whose envelope lacks the expected field.       *)
(* The human renderers print their first lines before they read the result. *)
C15_NoPartialResult ==
    EndedInError =>
        \A i, j \in 1..Len(out) : (out[j].ch = "stderr" /\ i < j) => out[i].ch # "stdout"

----------------------------------------------------------------------------
\* The progress indicator was started in this invocation.
SpinnerStarted == \E i \in 1..Len(out) : out[i] = Spin("start")

(* C16: in every invocation in which the progress indicator was started and *)
(* which ends in failure (API, network or request error, or a missing       *)
(* credential found when the client is built) the indicator is flipped to   *)
(* its failure state before the error message is printed and before the     *)
(* process exits; the process never exits with the indicator still running. *)
(* getApiKey calls process.exit(1) itself, under the running spinner.       *)
C16_SpinnerFailsBeforeError ==
    /\ (pc = "exited" /\ exitCode = 1 /\ SpinnerStarted) =>
            /\ spinner = "failed"
            /\ \E f \in 1..Len(out) :
                    /\ out[f] = Spin("fail")
                    /\ \A j \in 1..Len(out) : out[j].ch = "stderr" => f < j
    /\ pc = "exited" => spinner # "spinning"

----------------------------------------------------------------------------
\* The command did what it was asked to: the command line parsed, and an API
\* command got a 2xx and wrote no error message.
Succeeded ==
    /\ MissingRequired(cmd, argv) = {}
    /\ cmd \in ApiCommands => response.kind = "2xx"
    /\ \A i \in 1..Len(out) : out[i].ch # "stderr"

(* C17: the exit status of every invocation is 0 if and only if the command *)
(* succeeded, and 1 on every handled error (missing credential, usage       *)
(* error, API, network or request error); for every command a response     *)
(* with an error status s yields exit status 1 and a message containing s.  *)
C17_ExitStatus ==
    pc = "exited" =>
        /\ exitCode \in {0, 1}
        /\ exitCode = 0 <=> Succeeded
        /\ MissingRequired(cmd, argv) # {} => exitCode = 1
        /\ (cmd \in ApiCommands /\ ~KeyAvailable) => exitCode = 1
        /\ (cmd \in ApiCommands /\ response.kind \in {"no response", "not sent"}) =>
                (exitCode = 1 /\ \E k \in ErrorKinds : ErrorPrinted(k))
        /\ (cmd \in ApiCommands /\ response.kind = "status") =>
                /\ exitCode = 1
                /\ \E i \in 1..Len(out) :
                        /\ out[i].ch = "stderr"
                        /\ out[i].what = "TaxJar API Error"
                        /\ out[i].status = response.status

C17_Witness ==
    /\ cmd = "orders delete"
    /\ pc = "exited"
    /\ response.kind = "status"
    /\ response.status = 404
    /\ exitCode = 1
    /\ out[Len(out)].what = "TaxJar API Error"
    /\ out[Len(out)].status = 404

----------------------------------------------------------------------------
(* Reading the output back.                                                *)

\* What the invocation wrote to standard output, in order.
Stdout == SelectSeq(out, LAMBDA w : w.ch = "stdout")

\* The text is a JSON document: an array of entries or an object.
JsonValid(t) ==
    \/ /\ Len(t) = 3
       /\ t[1] = "{"
       /\ t[3] = "}"
    \/ /\ Len(t) >= 2
       /\ t[1] = "["
       /\ t[Len(t)] = "]"
       /\ Len(t) = 2 \/ Len(t) % 2 = 1
       /\ \A i \in 2..(Len(t) - 1) : IF i % 2 = 0 THEN t[i] \in Entries ELSE t[i] = ","

\* JSON.parse of a valid document.
JsonParse(t) ==
    IF t[1] = "[" THEN [defined |-> TRUE, list |-> TRUE,
                        items |-> [i \in 1..((Len(t) - 1) \div 2) |-> t[2 * i]]]
    ELSE [defined |-> TRUE, list |-> FALSE, items |-> <<t[2]>>]

\* An API command given --json ran to a successful end.
JsonSucceeded ==
    /\ cmd \in ApiCommands
    /\ "json" \in DOMAIN argv
    /\ pc = "exited"
    /\ exitCode = 0

(* C18: for every command run with --json that succeeds, standard output is *)
(* exactly one valid JSON document equal to the unwrapped result (parsing   *)
(* and serializing it again gives the same text), with no human-mode title, *)
(* label or table line, also when the 2xx response carries no value for the *)
(* unwrapped field.                                                         *)
(* JSON.stringify(undefined) is undefined, which console.log prints as the  *)
(* word undefined: not a JSON document.                                     *)
C18_JsonRoundTrip ==
    JsonSucceeded =>
        /\ Len(Stdout) = 1
        /\ Stdout[1].what = "JSON"
        /\ JsonValid(Stdout[1].text)
        /\ JsonStringify(JsonParse(Stdout[1].text)) = Stdout[1].text
        /\ response.defined => JsonParse(Stdout[1].text) = Result(cmd, response)

----------------------------------------------------------------------------
\* The lines that tell the user a list is empty.
NoResultsIndicators ==
    {"No results found.", "No orders found for the given criteria.",
     "No refunds found for the given criteria."}

\* A list command got a 2xx whose list is empty.
EmptyListAnswered ==
    /\ cmd \in ListCommands
    /\ pc = "exited"
    /\ response.kind = "2xx"
    /\ response.defined
    /\ response.items = <<>>

(* C19: for every list command a successful response with an empty list     *)
(* yields exit status 0, no error, and in human mode a printed "no results" *)
(* indicator, in --json mode an empty JSON list; never no indicator at all. *)
(* validate address prints its matches with forEach and nothing else: for   *)
(* an empty list standard output stays empty.                               *)
C19_EmptyListIndicator ==
    EmptyListAnswered =>
        /\ exitCode = 0
        /\ \A i \in 1..Len(out) : out[i].ch # "stderr"
        /\ IF "json" \in DOMAIN argv
           THEN Len(Stdout) = 1 /\ Stdout[1].text = <<"[", "]">>
           ELSE \E i \in 1..Len(Stdout) : Stdout[i].what \in NoResultsIndicators

----------------------------------------------------------------------------
\* The entries standard output shows, in order: the elements of the JSON
\* array, or the entries of the table rows and match blocks.
EntriesShown ==
    IF "json" \in DOMAIN argv
    THEN JsonParse(Stdout[1].text).items
    ELSE LET rows == SelectSeq(Stdout, LAMBDA w : w.what \in {"row", "Match"})
         IN  [i \in 1..Len(rows) |-> rows[i].text[1]]

(* C20: for every list command the entries output (JSON array elements, or  *)
(* table rows in human mode) are exactly the entries of the response's      *)
(* list: the same number, in the same order, none dropped, duplicated,      *)
(* reordered or filtered.                                                   *)
C20_ListOrderPreserved ==
    (cmd \in ListCommands /\ pc = "exited" /\ exitCode = 0) =>
        /\ response.kind = "2xx"
        /\ response.defined
        /\ EntriesShown = response.items

C20_Witness ==
    /\ cmd = "nexus list"
    /\ "json" \in DOMAIN argv
    /\ pc = "exited"
    /\ exitCode = 0
    /\ response.items = <<"e2", "e1">>
    /\ Stdout = <<Written("stdout", "JSON", 0, <<"[", "e2", ",", "e1", "]">>)>>

----------------------------------------------------------------------------
\* The step is the handler of config set.
ConfigSetStep == cmd = "config set" /\ pc = "running" /\ pc' = "exited"

(* C21: the persisted configuration record (apiKey, baseUrl) is written     *)
(* only by config set: no step of any other command, config show included,  *)
(* succeeding or failing, changes the stored apiKey or baseUrl, and config  *)
(* set leaves baseUrl alone; within one invocation the environment and the  *)
(* store the credential was resolved from stay as they are, so the bearer   *)
(* token of the request sent is the credential resolved.                    *)
C21_StoreWrittenOnlyByConfigSet ==
    [][/\ store' # store => ConfigSetStep
       /\ store'.baseUrl = store.baseUrl
       /\ (pc \in {"parsing", "running", "awaiting"} /\ ~ConfigSetStep) =>
                (env' = env /\ store' = store)
       /\ Len(requests') > 0 =>
                requests'[1].Authorization =
                    <<"Bearer ">> \o OrElse(env'.TAXJAR_API_KEY, store'.apiKey)]_vars

C21_Witness ==
    /\ lastSet.set
    /\ store.apiKey = lastSet.key
    /\ store.apiKey # Empty
    /\ env.TAXJAR_API_KEY # Empty
    /\ cmd = "orders delete"
    /\ pc = "exited"
    /\ exitCode = 1
    /\ response.kind = "status"
    /\ requests[1].Authorization = <<"Bearer ">> \o env.TAXJAR_API_KEY

----------------------------------------------------------------------------
(* Reading a printed table back.                                           *)

\* printTable was applied to a table with rows.
TablePrinted == printed # <<>> /\ Len(table.rows) > 0

\* No two columns of the table name the same key.
DistinctKeys ==
    \A i, j \in 1..Len(table.columns) :
        i # j => table.columns[i].key # table.columns[j].key

\* The width column i should have: the longest of its label and its cells.
ColumnWidth(i) ==
    LET lengths == {Len(table.columns[i].label)}
                    \cup {Len(CellText(table.rows[r], table.columns[i].key)) :
                            r \in 1..Len(table.rows)}
    IN  CHOOSE w \in lengths : \A x \in lengths : x <= w

\* Where column i starts in a line, and how long a line is.
RECURSIVE ColumnStart(_)
ColumnStart(i) == IF i = 1 THEN 0 ELSE ColumnStart(i - 1) + ColumnWidth(i - 1) + 2
LineLength == ColumnStart(Len(table.columns)) + ColumnWidth(Len(table.columns))

\* The part of a line that belongs to column i.
CellAt(l, i) == SubSeq(l, ColumnStart(i) + 1, ColumnStart(i) + ColumnWidth(i))

\* f is the text t followed by spaces only.
Padded(f, t) ==
    /\ Len(f) >= Len(t)
    /\ SubSeq(f, 1, Len(t)) = t
    /\ \A k \in (Len(t) + 1)..Len(f) : f[k] = " "

\* The lines are the header, the separator and one line per row in order,
\* all of one length, every column padded to its width.
TableAligned ==
    /\ Len(printed) = Len(table.rows) + 2
    /\ \A l \in 1..Len(printed) : Len(printed[l]) = LineLength
    /\ \A i \in 1..Len(table.columns) :
            /\ Padded(CellAt(printed[1], i), table.columns[i].label)
            /\ CellAt(printed[2], i) = Repeat("-", ColumnWidth(i))
            /\ \A r \in 1..Len(table.rows) :
                    Padded(CellAt(printed[r + 2], i),
                           CellText(table.rows[r], table.columns[i].key))

----------------------------------------------------------------------------
\* The value of the field a column stands for: the property at the key's
\* path, the rate inside minimum_rate and average_rate for the two rate
\* columns; empty when the entry does not carry it.
FieldValue(row, key) ==
    CASE key = "minimum_rate.rate" -> Lookup(row, "minimum_rate").rate
      [] key = "average_rate.rate" -> Lookup(row, "average_rate").rate
      [] OTHER -> Lookup(row, key).text

(* C23: in human mode every cell of a table shows the value of the field    *)
(* its column stands for; for rates summary the Min Rate and Avg Rate cells *)
(* of each row show the rate inside the entry's minimum_rate and            *)
(* average_rate, and are not empty when the entry carries those rates.      *)
(* printTable reads row['minimum_rate.rate'], a property no entry has.      *)
C23_CellsShowFieldValues ==
    (TablePrinted /\ table.columns = RatesSummaryColumns) =>
        \A r \in 1..Len(table.rows) : \A i \in 1..Len(table.columns) :
            Padded(CellAt(printed[r + 2], i), FieldValue(table.rows[r], table.columns[i].key))

====
